---- MODULE Spec2Model ----
(***************************************************************************)
(* A model of the page loop of main() in src/crawl4ai/main.py: one crawler *)
(* scope (async with AsyncWebCrawler), a loop over range(3) that builds a  *)
(* CrawlerRunConfig for the page, awaits crawler.arun on the shared        *)
(* session and prints either the first records of the page or the error.   *)
(* The crawler behind arun (session registry, cache, navigation) is not    *)
(* part of the source file; it is modelled from its documented contract.   *)
(***************************************************************************)
EXTENDS Integers, Sequences, FiniteSets, TLC

\* ---------------------------------------------------------------- bounds
\* Largest number of records one page can yield in the model.
MaxRecords == 6

\* ------------------------------------------------------ program constants
\* for page in range(3)
N == 3
\* print(products[:5])
PreviewLen == 5

None == "None"
amazon_product_URL == "https://www.amazon.com/s?k=mobile+phone"
session_name == "amazon_mobile_phone"
load_nextpage_js == <<"s-pagination-next.click()">>
wait_for_code == "s-result-list.childElementCount > 10"
use_llm == FALSE
\* js_code=None is modelled as the empty list of script snippets
NoScript == <<>>

VARIABLES pc, page, crawler_config, result, requests, outcomes, stdout,
          sessions, inflight, cache, raised

vars == <<pc, page, crawler_config, result, requests, outcomes, stdout,
          sessions, inflight, cache, raised>>

\* ------------------------------------------------------------- helpers
Min(a, b) == IF a < b THEN a ELSE b

\* The record lists a page can yield: alternating products (two phases) and
\* a list made of one repeated product, of every length 0..MaxRecords.
Records ==
  { [i \in 1..n |-> IF k = 2 THEN "phone_b"
                    ELSE IF i % 2 = k THEN "phone_a" ELSE "phone_b"] :
      n \in 0..MaxRecords, k \in 0..2 }

\* result.extracted_content: the JSON text of a record list, as the token
\* sequence  [ r1 , r2 , ... ]
extracted_content(recs) ==
  <<"[">> \o [i \in 1..(IF recs = <<>> THEN 0 ELSE 2 * Len(recs) - 1) |->
                IF i % 2 = 1 THEN recs[(i + 1) \div 2] ELSE ","]
          \o <<"]">>

\* A mis-parse that loses the last element of the list.
json_loads_droplast(s) == [i \in 1..((Len(s) - 2) \div 2) |-> s[2 * i]]

\* json.loads: the list of values between the brackets, in order
json_loads(s) == [i \in 1..((Len(s) - 1) \div 2) |-> s[2 * i]]

\* products[:5]
slice5(products) == SubSeq(products, 1, Min(PreviewLen, Len(products)))

\* ------------------------------------------------ per-page configuration
\* A configuration that waits for the readiness predicate on every page.
CrawlerRunConfig_waitalways(p) ==
  [ js_only |-> p > 0,
    js_code |-> IF p > 0 THEN load_nextpage_js ELSE NoScript,
    extraction_strategy |-> IF use_llm THEN "LLMExtractionStrategy"
                            ELSE "JsonCssExtractionStrategy",
    css_selector |-> "div[role=listitem]",
    session_id |-> session_name,
    wait_for |-> wait_for_code,
    cache_mode |-> "BYPASS",
    exclude_external_links |-> TRUE,
    exclude_social_media_links |-> TRUE ]

\* A configuration that leaves the cache enabled.
CrawlerRunConfig_cached(p) ==
  [ js_only |-> p > 0,
    js_code |-> IF p > 0 THEN load_nextpage_js ELSE NoScript,
    extraction_strategy |-> IF use_llm THEN "LLMExtractionStrategy"
                            ELSE "JsonCssExtractionStrategy",
    css_selector |-> "div[role=listitem]",
    session_id |-> session_name,
    wait_for |-> IF p > 0 THEN wait_for_code ELSE None,
    cache_mode |-> "ENABLED",
    exclude_external_links |-> TRUE,
    exclude_social_media_links |-> TRUE ]

\* A configuration that opens a session of its own for continuation pages.
CrawlerRunConfig_newsession(p) ==
  [ js_only |-> p > 0,
    js_code |-> IF p > 0 THEN load_nextpage_js ELSE NoScript,
    extraction_strategy |-> IF use_llm THEN "LLMExtractionStrategy"
                            ELSE "JsonCssExtractionStrategy",
    css_selector |-> "div[role=listitem]",
    session_id |-> IF p > 0 THEN "amazon_mobile_phone_next" ELSE session_name,
    wait_for |-> IF p > 0 THEN wait_for_code ELSE None,
    cache_mode |-> "BYPASS",
    exclude_external_links |-> TRUE,
    exclude_social_media_links |-> TRUE ]

\* CrawlerRunConfig(...) as built in the loop body for page p
CrawlerRunConfig(p) ==
  [ js_only |-> p > 0,
    js_code |-> IF p > 0 THEN load_nextpage_js ELSE NoScript,
    extraction_strategy |-> IF use_llm THEN "LLMExtractionStrategy"
                            ELSE "JsonCssExtractionStrategy",
    css_selector |-> "div[role=listitem]",
    session_id |-> session_name,
    wait_for |-> IF p > 0 THEN wait_for_code ELSE None,
    cache_mode |-> "BYPASS",
    exclude_external_links |-> TRUE,
    exclude_social_media_links |-> TRUE ]

\* crawler_config before the first iteration assigns it
NoConfig == CrawlerRunConfig(0)

\* ------------------------------------------- the crawler behind arun
\* CachePolicy: which modes may read / write a cached capture
CanRead(mode) == mode \in {"ENABLED", "READ_ONLY"}
CanWrite(mode) == mode \in {"ENABLED", "WRITE_ONLY", "BYPASS"}

\* SessionRegistry.acquire / release on the set of live session ids
acquire(live, id) == live \cup {id}
release(live, id) == live \ {id}

\* The effective cache key of a request
cacheKey(url, cfg) == <<url, cfg.js_code>>

CrawlResult(ok, recs, msg, src) ==
  [ success |-> ok,
    extracted_content |-> IF ok THEN extracted_content(recs) ELSE <<>>,
    error_message |-> msg,
    records |-> recs,
    source |-> src ]

NoResult == CrawlResult(FALSE, <<>>, None, None)

\* NavigationController.navigate followed by extraction: the set of
\* (result, cache) pairs one arun call can end with.
navigate(url, cfg, cch) ==
  LET key == cacheKey(url, cfg)
      failLoad == {[result |-> CrawlResult(FALSE, <<>>, "NavigationError", None),
                    cache |-> cch]}
      failWait == IF cfg.wait_for # None
                  THEN {[result |-> CrawlResult(FALSE, <<>>, "WaitTimeoutError", None),
                         cache |-> cch]}
                  ELSE {}
      fresh == {[result |-> CrawlResult(TRUE, recs, None, "navigation"),
                 cache |-> IF CanWrite(cfg.cache_mode)
                           THEN [k \in DOMAIN cch \cup {key} |->
                                   IF k = key THEN recs ELSE cch[k]]
                           ELSE cch] : recs \in Records}
  IN IF CanRead(cfg.cache_mode) /\ key \in DOMAIN cch
     THEN failLoad \cup {[result |-> CrawlResult(TRUE, cch[key], None, "cache"),
                          cache |-> cch]}
     ELSE failLoad \cup failWait \cup fresh

\* ------------------------------------------------------------- printing
Line(kind, p, items, msg) == [kind |-> kind, page |-> p, items |-> items, msg |-> msg]

\* ----------------------------------------------------------------- Init
Init ==
  /\ pc = "start"
  /\ page = 0 - 1
  /\ crawler_config = NoConfig
  /\ result = NoResult
  /\ requests = <<>>
  /\ outcomes = <<>>
  /\ stdout = <<>>
  /\ sessions = {}
  /\ inflight = {}
  /\ cache = <<>>
  /\ raised = FALSE

\* --------------------------------------------------------------- actions
\* async with AsyncWebCrawler(config=browser_config) as crawler:
EnterCrawler ==
  /\ pc = "start"
  /\ pc' = "for"
  /\ UNCHANGED <<page, crawler_config, result, requests, outcomes, stdout,
                 sessions, inflight, cache, raised>>

\* A loop header that stops iterating after the first successful page.
ForNext_break ==
  /\ pc = "for"
  /\ IF page + 1 < N /\ ~(page >= 0 /\ result.success)
     THEN page' = page + 1 /\ pc' = "config"
     ELSE page' = page /\ pc' = "exit"
  /\ UNCHANGED <<crawler_config, result, requests, outcomes, stdout,
                 sessions, inflight, cache, raised>>

\* A loop header that attempts a failed page once more.
ForNext_retry ==
  /\ pc = "for"
  /\ IF page >= 0 /\ ~result.success /\ Len(requests) <= page + 1
     THEN page' = page /\ pc' = "config"
     ELSE IF page + 1 < N
          THEN page' = page + 1 /\ pc' = "config"
          ELSE page' = page /\ pc' = "exit"
  /\ UNCHANGED <<crawler_config, result, requests, outcomes, stdout,
                 sessions, inflight, cache, raised>>

\* for page in range(3):
ForNext ==
  /\ pc = "for"
  /\ IF page + 1 < N
     THEN page' = page + 1 /\ pc' = "config"
     ELSE page' = page /\ pc' = "exit"
  /\ UNCHANGED <<crawler_config, result, requests, outcomes, stdout,
                 sessions, inflight, cache, raised>>

\* crawler_config = CrawlerRunConfig(...)
BuildConfig ==
  /\ pc = "config"
  /\ crawler_config' = CrawlerRunConfig(page)
  /\ pc' = "arun"
  /\ UNCHANGED <<page, result, requests, outcomes, stdout,
                 sessions, inflight, cache, raised>>

\* A call that is started but not awaited before the loop goes on.
ArunCall_noawait ==
  /\ pc = "arun"
  /\ requests' = Append(requests, [page |-> page, url |-> amazon_product_URL,
                                   config |-> crawler_config])
  /\ sessions' = acquire(sessions, crawler_config.session_id)
  /\ inflight' = inflight \cup {page}
  /\ pc' = "for"
  /\ UNCHANGED <<page, crawler_config, result, outcomes, stdout, cache, raised>>

\* result = await crawler.arun(url=..., config=crawler_config): the call is
\* issued and main() is suspended until it returns
ArunCall ==
  /\ pc = "arun"
  /\ requests' = Append(requests, [page |-> page, url |-> amazon_product_URL,
                                   config |-> crawler_config])
  /\ sessions' = acquire(sessions, crawler_config.session_id)
  /\ inflight' = inflight \cup {page}
  /\ pc' = "await"
  /\ UNCHANGED <<page, crawler_config, result, outcomes, stdout, cache, raised>>

\* the awaited call returns a CrawlResult
ArunReturn ==
  /\ pc = "await"
  /\ \E o \in navigate(amazon_product_URL, crawler_config, cache) :
       /\ result' = o.result
       /\ outcomes' = Append(outcomes, o.result)
       /\ cache' = o.cache
  /\ inflight' = inflight \ {page}
  /\ pc' = "if"
  /\ UNCHANGED <<page, crawler_config, requests, stdout, sessions, raised>>

\* the awaited call raises: the exception leaves the loop and the with block
ArunRaise ==
  /\ pc = "await"
  /\ raised' = TRUE
  /\ inflight' = inflight \ {page}
  /\ pc' = "exit"
  /\ UNCHANGED <<page, crawler_config, result, requests, outcomes, stdout,
                 sessions, cache>>

\* if result.success: print Success, products = json.loads(...), print(products[:5])
ReportSuccess ==
  /\ pc = "if"
  /\ result.success
  /\ LET products == json_loads(result.extracted_content)
     IN stdout' = stdout \o << Line("Success", page + 1, <<>>, None),
                               Line("products", page + 1, slice5(products), None) >>
  /\ pc' = "for"
  /\ UNCHANGED <<page, crawler_config, result, requests, outcomes,
                 sessions, inflight, cache, raised>>

\* An else branch that prints nothing.
ReportError_silent ==
  /\ pc = "if"
  /\ ~result.success
  /\ pc' = "for"
  /\ UNCHANGED <<page, crawler_config, result, requests, outcomes, stdout,
                 sessions, inflight, cache, raised>>

\* else: print("Error:", result.error_message)
ReportError ==
  /\ pc = "if"
  /\ ~result.success
  /\ stdout' = Append(stdout, Line("Error", page + 1, <<>>, result.error_message))
  /\ pc' = "for"
  /\ UNCHANGED <<page, crawler_config, result, requests, outcomes,
                 sessions, inflight, cache, raised>>

\* An exit that tears the session down only on the normal path.
ExitCrawler_leak ==
  /\ pc = "exit"
  /\ sessions' = IF raised THEN sessions ELSE release(sessions, session_name)
  /\ pc' = "done"
  /\ UNCHANGED <<page, crawler_config, result, requests, outcomes, stdout,
                 inflight, cache, raised>>

\* end of the async with block (normal exit or exception): the crawler closes
ExitCrawler ==
  /\ pc = "exit"
  /\ sessions' = release(sessions, session_name)
  /\ pc' = "done"
  /\ UNCHANGED <<page, crawler_config, result, requests, outcomes, stdout,
                 inflight, cache, raised>>

Next ==
  \/ EnterCrawler
  \/ ForNext
  \/ BuildConfig
  \/ ArunCall
  \/ ArunReturn
  \/ ArunRaise
  \/ ReportSuccess
  \/ ReportError
  \/ ExitCrawler

Spec == Init /\ [][Next]_vars

\* Every step of main() that is enabled is eventually taken: an awaited
\* call comes back and the event loop resumes the coroutine.
FairSpec == Spec /\ WF_vars(Next)

\* ------------------------------------------------ derived views of a run
RECURSIVE Flatten(_)
\* the concatenation of a sequence of sequences
Flatten(ss) == IF ss = <<>> THEN <<>> ELSE Head(ss) \o Flatten(Tail(ss))

\* the record lists printed so far, in print order
PrintedLists == LET idx == SelectSeq([j \in DOMAIN stdout |-> j],
                                     LAMBDA j : stdout[j].kind = "products")
                IN [n \in DOMAIN idx |-> stdout[idx[n]].items]

\* the number of results whose branch of the if has already run
Reported == IF pc = "if" THEN Len(outcomes) - 1 ELSE Len(outcomes)

\* the report lines (Success or Error) printed for the page numbered n
ReportsOf(n) == {j \in DOMAIN stdout :
                   stdout[j].kind \in {"Success", "Error"} /\ stdout[j].page = n}

\* the record lines printed for the page numbered n
ProductsOf(n) == {j \in DOMAIN stdout :
                    stdout[j].kind = "products" /\ stdout[j].page = n}

\* -------------------------------------------------------------- claims

\* C1: when the crawl of page k (k < N-1) returns an unsuccessful result
\* the loop terminates: no crawl is issued for any page after k, so the run
\* has exactly k+1 attempted pages.
C1_StopsAfterFailure ==
  \A i \in 1..Len(outcomes) :
    (~outcomes[i].success /\ i - 1 < N - 1) => Len(requests) = i

\* C2: when every page crawl of a run succeeds, the finished loop has
\* attempted exactly 3 pages, printed exactly one success report per page
\* (for pages 1, 2, 3) and did not stop early.
C2_AllSucceed ==
  (pc = "done" /\ ~raised /\ \A i \in 1..Len(outcomes) : outcomes[i].success)
    => /\ Len(requests) = 3
       /\ Len(outcomes) = 3
       /\ \A n \in 1..3 : \E j \in DOMAIN stdout :
            /\ stdout[j].kind = "Success"
            /\ stdout[j].page = n
            /\ ReportsOf(n) = {j}
       /\ Cardinality({j \in DOMAIN stdout : stdout[j].kind = "Success"}) = 3
       /\ {j \in DOMAIN stdout : stdout[j].kind = "Error"} = {}

C2_Witness ==
  /\ pc = "done"
  /\ ~raised
  /\ Len(outcomes) = 3
  /\ \A i \in 1..3 : outcomes[i].success

\* C3: the request for page 0 is a fresh load with no script and no
\* readiness predicate; the request for every later page is a continuation
\* carrying the pagination script and the readiness predicate; no other
\* combination of the three fields is ever issued.
C3_RequestShape ==
  \A i \in 1..Len(requests) :
    LET r == requests[i] IN
      IF r.page = 0
      THEN /\ r.config.js_only = FALSE
           /\ r.config.js_code = NoScript
           /\ r.config.wait_for = None
      ELSE /\ r.config.js_only = TRUE
           /\ r.config.js_code = load_nextpage_js
           /\ r.config.wait_for = wait_for_code

C3_Witness ==
  /\ Len(requests) = 3
  /\ requests[1].page = 0
  /\ requests[3].page = 2

C5_BypassNeverReadsCache ==
  /\ \A i \in 1..Len(requests) : requests[i].config.cache_mode = "BYPASS"
  /\ \A i \in 1..Len(outcomes) :
       outcomes[i].success => outcomes[i].source = "navigation"

C5_Witness ==
  /\ Len(outcomes) = 3
  /\ outcomes[2].success
  /\ outcomes[3].success
  /\ cacheKey(requests[2].url, requests[2].config)
       = cacheKey(requests[3].url, requests[3].config)
  /\ cacheKey(requests[3].url, requests[3].config) \in DOMAIN cache
  /\ outcomes[3].source = "navigation"

\* C6: at most one navigation is in flight on the session at any time; a
\* new crawl is started only when every earlier one has returned.
C6_OneInFlight ==
  /\ Cardinality(inflight) <= 1
  /\ pc = "arun" => inflight = {}
  /\ Len(requests) - Len(outcomes) <= 1

C6_Witness ==
  /\ inflight = {2}
  /\ Len(outcomes) = 2

\* C7 (as stated): the records delivered are the concatenation of the
\* complete record lists of all successful pages, in page order.
C7_AllRecordsDelivered ==
  Flatten(PrintedLists) =
    Flatten([i \in 1..Reported |->
               IF outcomes[i].success THEN outcomes[i].records ELSE <<>>])

\* C7 (amended): the records delivered are the concatenation, in increasing
\* page order, of the first five records of every successful page, in their
\* order and without deduplication; a failed page contributes nothing.
C7_FirstFiveDelivered ==
  /\ Flatten(PrintedLists) =
       Flatten([i \in 1..Reported |->
                  IF outcomes[i].success
                  THEN SubSeq(outcomes[i].records, 1, Min(5, Len(outcomes[i].records)))
                  ELSE <<>>])
  /\ PrintedLists =
       LET ok == SelectSeq([i \in 1..Reported |-> i],
                           LAMBDA i : outcomes[i].success)
       IN [n \in DOMAIN ok |->
             SubSeq(outcomes[ok[n]].records, 1, Min(5, Len(outcomes[ok[n]].records)))]

C7_Witness ==
  /\ pc = "done"
  /\ Len(outcomes) = 3
  /\ \E i, k, m \in 1..3 :
       /\ outcomes[i].success /\ Len(outcomes[i].records) > 5
       /\ outcomes[k].success /\ k # i
       /\ outcomes[k].records = <<"phone_b", "phone_b">>
       /\ ~outcomes[m].success

\* C8: the session's context does not exist before the first crawl, exists
\* from the first crawl until the with block ends, and is destroyed when
\* the block ends, after all pages as well as after an exception.
C8_SessionLifetime ==
  /\ Len(requests) = 0 => sessions = {}
  /\ (Len(requests) > 0 /\ pc # "done") => sessions = {session_name}
  /\ pc = "done" => sessions = {}

C8_Witness ==
  /\ pc = "done"
  /\ raised
  /\ Len(requests) = 2
  /\ sessions = {}

\* C9: pages are attempted in the order 0, 1, 2, each at most once, so at
\* most 3 crawls are issued whatever their outcomes; and when every crawl
\* returns, the loop ends, in a terminal state: all 3 pages attempted
\* (Completed) or fewer after a failure (StoppedEarly).
C9_NoRetryAndTerminates ==
  /\ [](/\ Len(requests) <= 3
        /\ \A i \in 1..Len(requests) : requests[i].page = i - 1
        /\ (pc = "done" /\ ~raised) =>
             \/ Len(outcomes) = N
             \/ /\ Len(outcomes) < N
                /\ \E i \in 1..Len(outcomes) : ~outcomes[i].success)
  /\ <>(pc = "done")

C9_Witness ==
  /\ pc = "done"
  /\ ~raised
  /\ Len(requests) = 3
  /\ outcomes[1].error_message = "NavigationError"
  /\ outcomes[2].error_message = "WaitTimeoutError"
  /\ outcomes[3].success

\* C10: all requests of a run share session id, url, cache mode, scoping
\* selector and extraction strategy; page 0 and later pages differ only in
\* the continuation flag, the script and the readiness predicate; every
\* continuation request follows a fresh load on the same session id.
C10_RequestFrame ==
  \A i \in 1..Len(requests) :
    /\ \A j \in 1..Len(requests) :
         /\ requests[i].url = requests[j].url
         /\ [requests[i].config EXCEPT !.js_only = FALSE, !.js_code = NoScript,
                                       !.wait_for = None]
              = [requests[j].config EXCEPT !.js_only = FALSE, !.js_code = NoScript,
                                           !.wait_for = None]
         /\ (requests[i].page = 0 /\ requests[j].page > 0) =>
              /\ requests[i].config.js_only # requests[j].config.js_only
              /\ requests[i].config.js_code # requests[j].config.js_code
              /\ requests[i].config.wait_for # requests[j].config.wait_for
    /\ requests[i].url = amazon_product_URL
    /\ requests[i].config.session_id = session_name
    /\ requests[i].config.cache_mode = "BYPASS"
    /\ requests[i].config.css_selector = "div[role=listitem]"
    /\ requests[i].config.extraction_strategy = "JsonCssExtractionStrategy"
    /\ requests[i].config.js_only =>
         \E j \in 1..(i - 1) :
           /\ ~requests[j].config.js_only
           /\ requests[j].config.session_id = requests[i].config.session_id

C10_Witness ==
  /\ Len(requests) = 3
  /\ requests[2].config.js_only
  /\ ~requests[1].config.js_only

====
